---- MODULE Spec2Model ----
(***************************************************************************)
(* Publish flow of the component-sharing web application:                  *)
(*   ComponentForm.tsx   - the form, its effects and onSubmit              *)
(*   ComponentDetails.tsx - metadata inputs and the submit button          *)
(*   dbQueries.ts        - queries and addTagsToComponent                  *)
(*   PublishPage         - the auth gate around the form                   *)
(*                                                                         *)
(* Source text (component code, demo code) is an abstract sequence of      *)
(* lines; the parsers of utils/parsers act on those lines.                 *)
(***************************************************************************)
EXTENDS Integers, Sequences, FiniteSets, TLC

\* ------------------------------------------------------------------ bounds
MaxLines == 2          \* lines of a pasted source text
MaxTags == 2           \* tags selected in the form
MaxComponents == 1     \* rows onSubmit may add to the components table
MaxRows == 2           \* rows of the components table the queries run on
MaxCallers == 2        \* clients calling addTagsToComponent at the same time

\* ------------------------------------------------------- source text model
Names == {"A", "B"}
PackageModule == "react"
InternalModule == "@/components/x"
Modules == {PackageModule, InternalModule}

ImportLine(n, m) == [kind |-> "import", name |-> n, from |-> m]
ExportLine(n) == [kind |-> "export", name |-> n, from |-> ""]
DemoLine == [kind |-> "demo", name |-> "Demo", from |-> ""]

ImportLines == {ImportLine(n, m) : n \in Names, m \in Modules}
CodeLines == ImportLines \cup {ExportLine(n) : n \in Names}
DemoLines == ImportLines \cup {DemoLine}

SeqsUpTo(S, n) == UNION {[1..k -> S] : k \in 0..n}
CodeTexts == SeqsUpTo(CodeLines, MaxLines)
DemoTexts == SeqsUpTo(DemoLines, MaxLines)


\* ------------------------------------------------------------ utils/parsers
IsExport(l) == l.kind = "export"
NameOf(l) == l.name
RECURSIVE MapNames(_)
MapNames(text) ==
  IF text = <<>> THEN <<>> ELSE <<NameOf(Head(text))>> \o MapNames(Tail(text))

extractComponentNames(text) == MapNames(SelectSeq(text, IsExport))

extractDependencies(text) ==
  {text[i].from : i \in {j \in 1..Len(text) : text[j].kind = "import"}}

extractDemoComponentName(text) ==
  IF \E i \in 1..Len(text) : text[i].kind = "demo" THEN "Demo" ELSE ""

IsInternalPath(m) == m = InternalModule

findInternalDependencies(dependencies, demoDependencies) ==
  [p \in {m \in dependencies \cup demoDependencies : IsInternalPath(m)} |-> ""]

SeqToSet(s) == {s[i] : i \in 1..Len(s)}

removeComponentImports(text, componentNames) ==
  LET Removed(l) == l.kind = "import" /\ l.name \in SeqToSet(componentNames)
      Kept(l) == ~Removed(l)
  IN [modifiedCode |-> SelectSeq(text, Kept),
      removedImports |-> SelectSeq(text, Removed)]

prepareFilesForPreview(c, d) == [code |-> c, demo |-> d]

\* ------------------------------------------------------------------- state
VARIABLES
  code, demo_code,            \* form values
  componentDependencies,      \* useState, ComponentForm.tsx:82
  importsToRemove,            \* <<>> is undefined, <<list>> a list
  showComponentDetails,
  isEditMode,
  previewProps                \* <<>> is null, <<files>> a preview

editVars == <<code, demo_code, componentDependencies, importsToRemove,
              showComponentDetails, isEditMode, previewProps>>

VARIABLES
  isLoaded, isSignedIn,       \* useUser() of the auth provider
  rendered,                   \* what PublishPage shows
  routerPush,                 \* the last router.push, "" when none
  isLoading, isSuccessDialogOpen,
  pc,                         \* where the running onSubmit is suspended
  run,                        \* the values onSubmit captured and its locals
  ops,                        \* backend operations of the latest onSubmit
  consoleErrors, alerts,      \* console.error / alert of the latest onSubmit
  storage,                    \* files in object storage
  components, tagsTable, component_tags,  \* tables of the backend
  returned,                   \* what the last query of dbQueries returned
  addTagsCalls,               \* calls of addTagsToComponent by several clients
  likes                       \* component_likes and the like mutation

authVars == <<isLoaded, isSignedIn, rendered>>
queryVars == <<returned, addTagsCalls, likes>>
runVars == <<pc, run, ops, consoleErrors, alerts>>
dbVars == <<storage, components, tagsTable, component_tags>>
vars == <<editVars, authVars, routerPush, isLoading,
          isSuccessDialogOpen, runVars, dbVars, queryVars>>

otherVars == <<authVars, routerPush, isLoading,
               isSuccessDialogOpen, runVars, dbVars, queryVars>>

Undefined == <<>>
Null == <<>>

InitialDependencies ==
  [dependencies |-> {}, demoDependencies |-> {},
   internalDependencies |-> <<>>, componentNames |-> <<>>,
   demoComponentName |-> ""]

\* ------------------------------------------------- effects of ComponentForm
updateDependencies(c, d) ==
  LET dependencies == extractDependencies(c)
      demoDependencies == extractDependencies(d)
  IN [dependencies |-> dependencies,
      demoDependencies |-> demoDependencies,
      componentNames |-> extractComponentNames(c),
      demoComponentName |-> extractDemoComponentName(d),
      internalDependencies |->
        findInternalDependencies(dependencies, demoDependencies)]

ImportsSettled(itr) == itr # Undefined /\ Len(itr[1]) = 0

previewEffect(c, d, internalDependencies, itr) ==
  IF c # <<>> /\ d # <<>>
     /\ DOMAIN internalDependencies = {}
     /\ ImportsSettled(itr)
  THEN <<prepareFilesForPreview(c, d)>>
  ELSE Null

\* the dependency list of the removeComponentImports effect
RemoveEffectRuns(mount, demoChanged, codeChanged) == mount \/ demoChanged

\* One render of ComponentForm followed by its effects.  s is the state the
\* render sees, prevCode/prevDemo the values of the previous render.
EffectPass(s, prevCode, prevDemo, mount) ==
  LET codeChanged == s.code # prevCode
      demoChanged == s.demo_code # prevDemo
      runUpdate == mount \/ codeChanged \/ demoChanged
      runRemove == RemoveEffectRuns(mount, demoChanged, codeChanged)
      rm == removeComponentImports(s.demo_code,
                                   s.componentDependencies.componentNames)
      found == extractDemoComponentName(rm.modifiedCode) # ""
  IN [code |-> s.code,
      demo_code |-> IF runRemove /\ found THEN rm.modifiedCode
                    ELSE s.demo_code,
      componentDependencies |->
        IF runUpdate THEN updateDependencies(s.code, s.demo_code)
        ELSE s.componentDependencies,
      importsToRemove |-> IF runRemove THEN <<rm.removedImports>>
                          ELSE s.importsToRemove,
      showComponentDetails |-> IF runRemove /\ found THEN TRUE
                               ELSE s.showComponentDetails,
      isEditMode |-> s.isEditMode,
      previewProps |->
        previewEffect(s.code, s.demo_code,
                      s.componentDependencies.internalDependencies,
                      s.importsToRemove)]

\* Renders repeat until no effect changes the state.
RECURSIVE Settle(_, _, _, _)
Settle(s, prevCode, prevDemo, mount) ==
  LET t == EffectPass(s, prevCode, prevDemo, mount)
  IN IF t = s /\ ~mount THEN s ELSE Settle(t, s.code, s.demo_code, FALSE)

FormState ==
  [code |-> code, demo_code |-> demo_code,
   componentDependencies |-> componentDependencies,
   importsToRemove |-> importsToRemove,
   showComponentDetails |-> showComponentDetails,
   isEditMode |-> isEditMode,
   previewProps |-> previewProps]

SetFormState(t) ==
  /\ code' = t.code
  /\ demo_code' = t.demo_code
  /\ componentDependencies' = t.componentDependencies
  /\ importsToRemove' = t.importsToRemove
  /\ showComponentDetails' = t.showComponentDetails
  /\ isEditMode' = t.isEditMode
  /\ previewProps' = t.previewProps

MountState ==
  Settle([code |-> <<>>, demo_code |-> <<>>,
          componentDependencies |-> InitialDependencies,
          importsToRemove |-> Undefined,
          showComponentDetails |-> FALSE,
          isEditMode |-> FALSE,
          previewProps |-> Null], <<>>, <<>>, TRUE)

parsedComponentNames == componentDependencies.componentNames
internalDependencies == componentDependencies.internalDependencies

\* ----------------------------------------------------------- edit handlers
\* Editor onValueChange of the code field
EditCode ==
  /\ isEditMode \/ Len(parsedComponentNames) = 0
  /\ \E c \in CodeTexts :
       /\ c # code
       /\ SetFormState(Settle([FormState EXCEPT
                                 !.code = c,
                                 !.isEditMode = IF c # <<>> THEN FALSE
                                                ELSE isEditMode],
                              code, demo_code, FALSE))
  /\ UNCHANGED otherVars

\* Edit button over the code field
ClickEditCode ==
  /\ Len(parsedComponentNames) > 0
  /\ ~isEditMode
  /\ isEditMode' = TRUE
  /\ UNCHANGED <<code, demo_code, componentDependencies, importsToRemove,
                 showComponentDetails, previewProps, otherVars>>

\* Editor onValueChange of the demo_code field
EditDemo ==
  /\ Len(parsedComponentNames) > 0
  /\ ~showComponentDetails
  /\ \E d \in DemoTexts :
       /\ d # demo_code
       /\ SetFormState(Settle([FormState EXCEPT !.demo_code = d],
                              code, demo_code, FALSE))
  /\ UNCHANGED otherVars

\* Edit button over the demo field
ClickEditDemo ==
  /\ showComponentDetails
  /\ showComponentDetails' = FALSE
  /\ UNCHANGED <<code, demo_code, componentDependencies, importsToRemove,
                 isEditMode, previewProps, otherVars>>

Slugs == {"", "dep"}

\* Input onChange of an internal dependency slug
SetInternalDependencySlug ==
  /\ \E p \in DOMAIN internalDependencies, v \in Slugs :
       /\ internalDependencies[p] # v
       /\ SetFormState(Settle([FormState EXCEPT
            !.componentDependencies.internalDependencies[p] = v],
            code, demo_code, FALSE))
  /\ UNCHANGED otherVars

\* --------------------------------------------------------------- constants
NoUser == ""
UserId == "user_1"
\* useUser(): ComponentForm reads the user on its own, whatever PublishPage
\* renders around it
user == IF isLoaded /\ isSignedIn THEN UserId ELSE NoUser

FormName == "Button"
FormSlug == "button"
SignInUrl == "/sign-in?redirect_url=/publish"
ComponentUrl == "/ann/button"
CoverImage == "cover.png"

LoginAlert == "You must be logged in to add a component."
SlugAlert == "Please specify the slug for all internal dependencies"
ErrorAlert == "An error occurred while adding the component"

\* --------------------------------------------------------------------- tags
\* id 0 stands for a tag of the select that has no id (item.__isNew__)
NoId == 0
generateSlug(label) ==
  CASE label = "UI" -> "ui"
    [] label = "chart" -> "chart"
    [] OTHER -> ""
capitalize(label) ==
  CASE label = "chart" -> "Chart"
    [] OTHER -> label

\* ComponentDetails, onChange of the tag select
formatTag(item) ==
  [id |-> IF item.isNew THEN NoId ELSE item.value,
   name |-> item.label,
   slug |-> generateSlug(item.label)]

SelectItems ==
  {[isNew |-> FALSE, value |-> 1, label |-> "UI"],
   [isNew |-> TRUE, value |-> 0, label |-> "chart"],
   [isNew |-> TRUE, value |-> 0, label |-> "!"]}
TagOptions == {formatTag(item) : item \in SelectItems}

NoRepeat(s) == \A i, j \in 1..Len(s) : s[i] = s[j] => i = j
TagLists == {s \in SeqsUpTo(TagOptions, MaxTags) : NoRepeat(s)}

HasSlug(tag) == tag.slug # ""
\* onSubmit: validTags.filter((tag) => !!tag.slug)
tagsForComponent(validTags) == SelectSeq(validTags, HasSlug)

\* ---------------------------------------------------- backend operations
BaseOps == {"uploadCode", "uploadDemo", "uploadPreviewImage", "addComponent"}
TagOps == {"lookup", "insertTag", "link"}
OpKeys == {<<o, 0>> : o \in BaseOps} \cup (TagOps \X (1..MaxTags))
NoOps == [k \in OpKeys |-> [calls |-> 0, result |-> "none"]]

Call(o, k) == [o EXCEPT ![k] = [calls |-> @.calls + 1, result |-> "pending"]]
Result(o, k, r) == [o EXCEPT ![k].result = r]

NextId(table) ==
  IF table = {} THEN 1
  ELSE 1 + (CHOOSE m \in {r.id : r \in table} :
              \A r \in table : r.id <= m)

\* ------------------------------------------------------------- PublishPage
PublishPageView_unloaded(loaded, signedIn) ==
  IF signedIn THEN "ComponentForm" ELSE "RedirectToSignIn"
PublishPageView(loaded, signedIn) ==
  IF ~loaded THEN "LoadingSpinner"
  ELSE IF signedIn THEN "ComponentForm"
  ELSE "RedirectToSignIn"

\* the effect of PublishPage, lines 15-19
redirectEffect(loaded, signedIn, last) ==
  IF loaded /\ ~signedIn THEN SignInUrl ELSE last

AuthChange(loaded, signedIn) ==
  /\ isLoaded' = loaded
  /\ isSignedIn' = signedIn
  /\ rendered' = PublishPageView(loaded, signedIn)
  /\ routerPush' = redirectEffect(loaded, signedIn, routerPush)
  /\ UNCHANGED <<editVars, queryVars, isLoading, isSuccessDialogOpen,
                 runVars, dbVars>>

\* the auth provider finishes loading the session
ClerkLoaded ==
  /\ ~isLoaded
  /\ \E signedIn \in BOOLEAN : AuthChange(TRUE, signedIn)

SignIn == isLoaded /\ ~isSignedIn /\ AuthChange(TRUE, TRUE)
SignOut == isLoaded /\ isSignedIn /\ AuthChange(TRUE, FALSE)

\* ------------------------------------------------ ComponentDetails inputs
\* togglePublic, lines 67-73: form.setValue("is_public", value)
togglePublic(value) == <<value>>

\* the values the form can hold when the button is clicked: the tags of the
\* select, a cover image or none, the visibility untouched or toggled
FormDatas ==
  [tags : TagLists,
   preview_url : {"", CoverImage},
   is_public : {<<>>} \cup {togglePublic(value) : value \in BOOLEAN}]

\* ---------------------------------------------------------------- onSubmit
NoOp == <<"", 0>>
Shown(msg, k) == [msg |-> msg, op |-> k]

NoData == [tags |-> <<>>, preview_url |-> "", is_public |-> <<>>]
NoRun ==
  [data |-> NoData,
   captured |-> InitialDependencies, demoCode |-> <<>>, codeText |-> <<>>,
   previewImageUrl |-> <<>>, componentData |-> <<>>,
   tagList |-> <<>>, componentId |-> 0, i |-> 0, tagId |-> 0]

userMissing_unchecked(u) == FALSE
\* line 157: !user || !user.id
userMissing(u) == u = NoUser

slugMissing_unchecked(deps) == FALSE
\* line 165: some internal dependency has no slug
slugMissing(deps) == \E p \in DOMAIN deps : deps[p] = ""

SubmitButtonEnabled_always == showComponentDetails
\* the button of ComponentDetails, lines 319-333; isFormValid is not
\* constrained
SubmitButtonEnabled == showComponentDetails /\ ~isLoading

FileName(slug, kind) == <<slug, kind>>
Url(file) == <<"url", file>>
JSONstringify(x) == <<"json", x>>

\* lines 198-212
componentDataOf(r, userId) ==
  [name |-> FormName,
   component_name |-> JSONstringify(r.captured.componentNames),
   demo_component_name |-> r.captured.demoComponentName,
   component_slug |-> FormSlug,
   code |-> Url(FileName(FormSlug, "code")),
   demo_code |-> Url(FileName(FormSlug, "demo")),
   description |-> "",
   install_url |-> <<"/api/r/", FormSlug>>,
   user_id |-> userId,
   dependencies |-> JSONstringify(r.captured.dependencies),
   demo_dependencies |-> JSONstringify(r.captured.demoDependencies),
   internal_dependencies |->
     JSONstringify(r.captured.internalDependencies),
   preview_url |-> r.previewImageUrl]

finallyIsLoading_onlyOnSuccess(threw) == threw
\* line 228, the finally block
finallyIsLoading(threw) == FALSE

afterCatch_rolledBack(written) == {}
\* lines 220-226: the catch block leaves what the run has written
afterCatch(written) == written

\* lines 220-229: catch and finally
Throw(o, k) ==
  /\ ops' = Result(o, k, "err")
  /\ consoleErrors' =
       consoleErrors \cup {Shown("Error adding component:", k)}
  /\ alerts' = alerts \cup {Shown(ErrorAlert, k)}
  /\ isLoading' = finallyIsLoading(TRUE)
  /\ pc' = "idle"
  /\ run' = NoRun
  /\ UNCHANGED isSuccessDialogOpen

\* line 214: the call of addComponent
CallAddComponent(o, r) ==
  /\ ops' = Call(o, <<"addComponent", 0>>)
  /\ run' = [r EXCEPT !.componentData = <<componentDataOf(r, UserId)>>]
  /\ pc' = "addComponent"
  /\ UNCHANGED <<consoleErrors, alerts, isLoading, isSuccessDialogOpen>>

uploadsDone_first(o) ==
  \/ o[<<"uploadCode", 0>>].result = "ok"
  \/ o[<<"uploadDemo", 0>>].result = "ok"
\* Promise.all of line 182 resolves
uploadsDone(o) ==
  /\ o[<<"uploadCode", 0>>].result = "ok"
  /\ o[<<"uploadDemo", 0>>].result = "ok"

handleSubmit ==
  /\ SubmitButtonEnabled
  /\ Cardinality(components) < MaxComponents
  /\ \E data \in FormDatas :
     \/ /\ userMissing(user)
        /\ consoleErrors' = {Shown("User is not authenticated", NoOp)}
        /\ alerts' = {Shown(LoginAlert, NoOp)}
        /\ ops' = NoOps
        /\ run' = NoRun
        /\ UNCHANGED <<pc, isLoading>>
     \/ /\ ~userMissing(user)
        /\ slugMissing(internalDependencies)
        /\ consoleErrors' =
             {Shown("Internal dependencies not specified", NoOp)}
        /\ alerts' = {Shown(SlugAlert, NoOp)}
        /\ ops' = NoOps
        /\ run' = NoRun
        /\ UNCHANGED <<pc, isLoading>>
     \/ /\ ~userMissing(user)
        /\ ~slugMissing(internalDependencies)
        /\ isLoading' = TRUE
        /\ consoleErrors' = {}
        /\ alerts' = {}
        /\ run' = [NoRun EXCEPT !.data = data,
                                !.captured = componentDependencies,
                                !.codeText = code,
                                !.demoCode = demo_code]
        /\ ops' = Call(Call(NoOps, <<"uploadCode", 0>>), <<"uploadDemo", 0>>)
        /\ pc' = "uploads"
  /\ UNCHANGED <<editVars, queryVars, authVars, routerPush,
                 isSuccessDialogOpen, dbVars>>

OtherUpload(f) == IF f = "uploadCode" THEN "uploadDemo" ELSE "uploadCode"
FileOf(f) ==
  FileName(FormSlug, IF f = "uploadCode" THEN "code"
                     ELSE IF f = "uploadDemo" THEN "demo" ELSE "preview")

\* uploadToStorage returns or throws.  When one upload throws, Promise.all
\* rejects at once and nobody awaits the other upload any more: whether that
\* one still writes its file is left open.
UploadResolves ==
  /\ pc = "uploads"
  /\ \E f \in {"uploadCode", "uploadDemo"}, ok \in BOOLEAN :
       /\ ops[<<f, 0>>].result = "pending"
       /\ IF ok
          THEN /\ storage' = storage \cup {FileOf(f)}
               /\ LET o == Result(ops, <<f, 0>>, "ok")
                  IN IF uploadsDone(o)
                     THEN IF run.data.preview_url # ""
                          THEN /\ ops' = Call(o, <<"uploadPreviewImage", 0>>)
                               /\ pc' = "uploadPreviewImage"
                               /\ UNCHANGED <<run, consoleErrors, alerts,
                                              isLoading, isSuccessDialogOpen>>
                          ELSE CallAddComponent(o, run)
                     ELSE /\ ops' = o
                          /\ UNCHANGED <<pc, run, consoleErrors, alerts,
                                         isLoading, isSuccessDialogOpen>>
          ELSE /\ \E otherWrites \in BOOLEAN :
                    storage' =
                      afterCatch(
                        IF ops[<<OtherUpload(f), 0>>].result = "pending"
                           /\ otherWrites
                        THEN storage \cup {FileOf(OtherUpload(f))}
                        ELSE storage)
               /\ Throw(ops, <<f, 0>>)
  /\ UNCHANGED <<editVars, queryVars, authVars, routerPush,
                 components, tagsTable, component_tags>>

\* uploadPreviewImage returns or throws
PreviewUploadResolves ==
  /\ pc = "uploadPreviewImage"
  /\ \E ok \in BOOLEAN :
       IF ok
       THEN /\ storage' = storage \cup {FileOf("uploadPreviewImage")}
            /\ CallAddComponent(
                 Result(ops, <<"uploadPreviewImage", 0>>, "ok"),
                 [run EXCEPT !.previewImageUrl =
                                Url(FileOf("uploadPreviewImage"))])
       ELSE /\ storage' = afterCatch(storage)
            /\ Throw(ops, <<"uploadPreviewImage", 0>>)
  /\ UNCHANGED <<editVars, queryVars, authVars, routerPush,
                 components, tagsTable, component_tags>>

\* ------------------------------------------------------ addTagsToComponent
nextTag_retry(i, failed) == IF failed THEN i ELSE i + 1
nextTag_abort(i, failed) == IF failed THEN MaxTags + 1 ELSE i + 1
\* the tag the loop handles after tag i
nextTag(i, failed) == i + 1

\* The loop of addTagsToComponent reaches tag i: a tag with an id is linked at
\* once, a tag without one is looked up by slug; past the last tag the call
\* returns and onSubmit opens the dialog and runs its finally block.
tagStep(o, r, i) ==
  IF i > Len(r.tagList)
  THEN [pc |-> "idle", ops |-> o, run |-> NoRun, done |-> TRUE]
  ELSE IF r.tagList[i].id # NoId
  THEN [pc |-> "link", ops |-> Call(o, <<"link", i>>),
        run |-> [r EXCEPT !.i = i, !.tagId = r.tagList[i].id],
        done |-> FALSE]
  ELSE [pc |-> "lookup", ops |-> Call(o, <<"lookup", i>>),
        run |-> [r EXCEPT !.i = i, !.tagId = NoId],
        done |-> FALSE]

Apply(step) ==
  /\ pc' = step.pc
  /\ ops' = step.ops
  /\ run' = step.run
  /\ isLoading' = IF step.done THEN finallyIsLoading(FALSE) ELSE isLoading
  /\ isSuccessDialogOpen' = IF step.done THEN TRUE ELSE isSuccessDialogOpen

\* the row the insert of addComponent adds; a column the record does not
\* carry is left to the table (<<>>)
insertedRow(componentData, id) ==
  [id |-> id,
   component_slug |-> componentData.component_slug,
   user_id |-> componentData.user_id,
   is_public |-> IF "is_public" \in DOMAIN componentData
                 THEN componentData.is_public ELSE <<>>]

\* addComponent returns a record, returns nothing, or throws
AddComponentResolves ==
  /\ pc = "addComponent"
  /\ \/ LET id == NextId(components)
          IN /\ components' = components \cup
                  {insertedRow(run.componentData[1], id)}
             /\ Apply(tagStep(Result(ops, <<"addComponent", 0>>, "ok"),
                              [run EXCEPT
                                 !.componentId = id,
                                 !.tagList = tagsForComponent(run.data.tags)],
                              1))
             /\ UNCHANGED <<consoleErrors, alerts, storage>>
     \/ /\ ops' = Result(ops, <<"addComponent", 0>>, "null")
        /\ isLoading' = finallyIsLoading(FALSE)
        /\ pc' = "idle"
        /\ run' = NoRun
        /\ UNCHANGED <<components, consoleErrors, alerts,
                       isSuccessDialogOpen, storage>>
     \/ /\ Throw(ops, <<"addComponent", 0>>)
        /\ storage' = afterCatch(storage)
        /\ UNCHANGED components
  /\ UNCHANGED <<editVars, queryVars, authVars, routerPush,
                 tagsTable, component_tags>>

\* lines 240-244: select("id").eq("slug", slug).single()
single(rows) == IF Cardinality(rows) = 1 THEN <<CHOOSE r \in rows : TRUE>>
                ELSE <<>>
existingTagOf(table, slug, failed) ==
  IF failed THEN <<>> ELSE single({t \in table : t.slug = slug})

\* the lookup of a tag by slug answers
TagLookupResolves ==
  /\ pc = "lookup"
  /\ \E failed \in BOOLEAN :
       LET tag == run.tagList[run.i]
           existingTag == existingTagOf(tagsTable, generateSlug(tag.name),
                                        failed)
           o == Result(ops, <<"lookup", run.i>>,
                       IF failed THEN "err"
                       ELSE IF existingTag = <<>> THEN "none" ELSE "ok")
       IN IF existingTag # <<>>
          THEN /\ ops' = Call(o, <<"link", run.i>>)
               /\ run' = [run EXCEPT !.tagId = existingTag[1].id]
               /\ pc' = "link"
          ELSE /\ ops' = Call(o, <<"insertTag", run.i>>)
               /\ run' = run
               /\ pc' = "insertTag"
  /\ UNCHANGED <<editVars, queryVars, authVars, routerPush, isLoading,
                 isSuccessDialogOpen, consoleErrors, alerts, dbVars>>

\* lines 249-263: the insert of a new tag answers
TagInsertResolves ==
  /\ pc = "insertTag"
  /\ LET tag == run.tagList[run.i]
         k == <<"insertTag", run.i>>
         row == [id |-> NextId(tagsTable), name |-> capitalize(tag.name),
                 slug |-> generateSlug(tag.name)]
     IN \/ /\ consoleErrors' =
                consoleErrors \cup {Shown("Error inserting tag:", k)}
           /\ tagsTable' = tagsTable
           /\ Apply(tagStep(Result(ops, k, "err"), run,
                            nextTag(run.i, TRUE)))
        \/ /\ tagsTable' = tagsTable \cup {row}
           /\ consoleErrors' = consoleErrors
           /\ ops' = Call(Result(ops, k, "ok"), <<"link", run.i>>)
           /\ run' = [run EXCEPT !.tagId = row.id]
           /\ pc' = "link"
           /\ UNCHANGED <<isLoading, isSuccessDialogOpen>>
        \/ /\ tagsTable' = tagsTable \cup {row}
           /\ consoleErrors' = consoleErrors \cup
                {Shown("New tag was not created or does not have an id", k)}
           /\ Apply(tagStep(Result(ops, k, "null"), run,
                            nextTag(run.i, TRUE)))
  /\ UNCHANGED <<editVars, queryVars, authVars, routerPush, alerts,
                 storage, components, component_tags>>

\* lines 267-273: the insert into component_tags answers
LinkResolves ==
  /\ pc = "link"
  /\ \E ok \in BOOLEAN :
       LET k == <<"link", run.i>>
       IN /\ component_tags' =
               IF ok THEN component_tags \cup {<<run.componentId, run.tagId>>}
               ELSE component_tags
          /\ consoleErrors' =
               IF ok THEN consoleErrors
               ELSE consoleErrors \cup
                      {Shown("Error linking tag to component:", k)}
          /\ Apply(tagStep(Result(ops, k, IF ok THEN "ok" ELSE "err"), run,
                           nextTag(run.i, ~ok)))
  /\ UNCHANGED <<editVars, queryVars, authVars, routerPush, alerts,
                 storage, components, tagsTable>>

\* ------------------------------------------------------ the success dialog
handleGoToComponent ==
  /\ isSuccessDialogOpen
  /\ routerPush' = IF user # NoUser THEN ComponentUrl ELSE routerPush
  /\ isSuccessDialogOpen' = FALSE
  /\ UNCHANGED <<editVars, queryVars, authVars, isLoading, runVars, dbVars>>

\* form.reset() and the renders it causes
handleAddAnother ==
  /\ isSuccessDialogOpen
  /\ SetFormState(Settle([FormState EXCEPT !.code = <<>>,
                                           !.demo_code = <<>>],
                         code, demo_code, FALSE))
  /\ isSuccessDialogOpen' = FALSE
  /\ UNCHANGED <<queryVars, authVars, routerPush, isLoading, runVars, dbVars>>

\* Dialog onOpenChange(false)
CloseDialog ==
  /\ isSuccessDialogOpen
  /\ isSuccessDialogOpen' = FALSE
  /\ UNCHANGED <<editVars, queryVars, authVars, routerPush, isLoading,
                 runVars, dbVars>>

\* ------------------------------------------------- queries of dbQueries.ts
Public == <<TRUE>>
Private == <<FALSE>>
QuerySlugs == {"button", "card"}
QueryUsers == {"user_1", "user_2"}
UsernameOf(userId) == IF userId = "user_1" THEN "ann" ELSE "bob"
Usernames == {UsernameOf(u) : u \in QueryUsers}
TagSlugs == {"ui", "chart"}

ComponentRows ==
  [id : 1..MaxRows, component_slug : QuerySlugs, user_id : QueryUsers,
   is_public : {Public, Private}]
UniqueIds(table) == \A r, q \in table : r.id = q.id => r = q
ComponentTables ==
  {t \in SUBSET ComponentRows : Cardinality(t) <= MaxRows /\ UniqueIds(t)}

\* getComponent, lines 18-47: the filter on user.username applies to the
\* embedded user, not to the component rows
getComponent(table, username, slug) ==
  single({r \in table : r.component_slug = slug /\ r.is_public = Public})

\* getUserComponents, lines 72-89
getUserComponents(table, userId) ==
  {r \in table : r.user_id = userId /\ r.is_public = Public}

\* getComponents, lines 91-122: inner join with component_tags and tags
TagSlugsOf(r, links, tagRows) ==
  {t.slug : t \in {x \in tagRows : <<r.id, x.id>> \in links}}
getComponents(table, links, tagRows, tagSlug) ==
  {r \in table :
     /\ r.is_public = Public
     /\ TagSlugsOf(r, links, tagRows) # {}
     /\ tagSlug # "" => tagSlug \in TagSlugsOf(r, links, tagRows)}

\* fetchDependencyComponents, lines 334-361
fetchDependencyComponent(table, slug) ==
  single({r \in table : r.component_slug = slug})
fetchDependencyComponents(table, dependencySlugs) ==
  UNION {SeqToSet(fetchDependencyComponent(table, slug)) :
           slug \in dependencySlugs}

\* useComponentOwnerUsername, lines 300-332: the component the username is
\* read from
componentOwner(table, slug) ==
  single({r \in table : r.component_slug = slug})

Returned(fn, rows) ==
  /\ returned' = [fn |-> fn, rows |-> rows]
  /\ UNCHANGED <<addTagsCalls, likes, editVars, authVars, routerPush, isLoading,
                 isSuccessDialogOpen, runVars, dbVars>>

GetComponent ==
  \E username \in Usernames, slug \in QuerySlugs :
    Returned("getComponent",
             SeqToSet(getComponent(components, username, slug)))

GetUserComponents ==
  \E userId \in QueryUsers :
    Returned("getUserComponents", getUserComponents(components, userId))

GetComponents ==
  \E tagSlug \in TagSlugs \cup {""} :
    Returned("getComponents",
             getComponents(components, component_tags, tagsTable, tagSlug))

FetchDependencyComponents ==
  \E dependencySlugs \in SUBSET QuerySlugs :
    Returned("fetchDependencyComponents",
             fetchDependencyComponents(components, dependencySlugs))

ComponentOwnerUsername ==
  \E slug \in QuerySlugs :
    Returned("useComponentOwnerUsername",
             SeqToSet(componentOwner(components, slug)))

\* ------------------------------ addTagsToComponent called by several clients
Callers == 1..MaxCallers

\* one call of addTagsToComponent: where it is suspended, its arguments and
\* locals; clean holds the slugs it inserted after a lookup that answered
\* without error that no tag has the slug
NoCall ==
  [pc |-> "idle", tags |-> <<>>, i |-> 0, tagId |-> NoId,
   lookedUp |-> FALSE, clean |-> {}]

\* line 231-244: the loop reaches tag i
loopAt(call, i) ==
  IF i > Len(call.tags)
  THEN [call EXCEPT !.pc = "done", !.i = i]
  ELSE IF call.tags[i].id # NoId
  THEN [call EXCEPT !.pc = "link", !.i = i, !.tagId = call.tags[i].id,
                    !.lookedUp = FALSE]
  ELSE [call EXCEPT !.pc = "lookup", !.i = i, !.tagId = NoId,
                    !.lookedUp = FALSE]

CallFrame ==
  UNCHANGED <<editVars, authVars, routerPush, isLoading, isSuccessDialogOpen,
              runVars, storage, components, returned, likes>>

\* a client calls addTagsToComponent for its component
AddTagsToComponentCalled(c) ==
  /\ addTagsCalls[c].pc = "idle"
  /\ \E tags \in TagLists :
       addTagsCalls' =
         [addTagsCalls EXCEPT
            ![c] = loopAt([NoCall EXCEPT !.tags = tagsForComponent(tags)], 1)]
  /\ UNCHANGED <<tagsTable, component_tags>>
  /\ CallFrame

\* lines 240-248: the lookup of the call answers
CallLookupResolves(c) ==
  /\ addTagsCalls[c].pc = "lookup"
  /\ \E failed \in BOOLEAN :
       LET call == addTagsCalls[c]
           existingTag ==
             existingTagOf(tagsTable, generateSlug(call.tags[call.i].name),
                           failed)
       IN addTagsCalls' =
            [addTagsCalls EXCEPT
               ![c] = IF existingTag # <<>>
                      THEN [call EXCEPT !.pc = "link",
                                        !.tagId = existingTag[1].id]
                      ELSE [call EXCEPT !.pc = "insertTag",
                                        !.lookedUp = ~failed]]
  /\ UNCHANGED <<tagsTable, component_tags>>
  /\ CallFrame

\* lines 249-263: the insert of the call answers
CallInsertResolves(c) ==
  /\ addTagsCalls[c].pc = "insertTag"
  /\ LET call == addTagsCalls[c]
         tag == call.tags[call.i]
         row == [id |-> NextId(tagsTable), name |-> capitalize(tag.name),
                 slug |-> generateSlug(tag.name)]
         inserted == [call EXCEPT
                        !.clean = IF call.lookedUp THEN @ \cup {row.slug}
                                  ELSE @]
     IN \/ /\ tagsTable' = tagsTable
           /\ addTagsCalls' =
                [addTagsCalls EXCEPT
                   ![c] = loopAt(call, nextTag(call.i, TRUE))]
        \/ /\ tagsTable' = tagsTable \cup {row}
           /\ addTagsCalls' =
                [addTagsCalls EXCEPT
                   ![c] = [inserted EXCEPT !.pc = "link", !.tagId = row.id]]
        \/ /\ tagsTable' = tagsTable \cup {row}
           /\ addTagsCalls' =
                [addTagsCalls EXCEPT
                   ![c] = loopAt(inserted, nextTag(call.i, TRUE))]
  /\ UNCHANGED component_tags
  /\ CallFrame

\* lines 267-273: the insert into component_tags of the call answers
CallLinkResolves(c) ==
  /\ addTagsCalls[c].pc = "link"
  /\ \E ok \in BOOLEAN :
       LET call == addTagsCalls[c]
       IN /\ component_tags' =
               IF ok THEN component_tags \cup {<<c, call.tagId>>}
               ELSE component_tags
          /\ addTagsCalls' =
               [addTagsCalls EXCEPT ![c] = loopAt(call, nextTag(call.i, ~ok))]
  /\ UNCHANGED tagsTable
  /\ CallFrame

\* ---------------------------------------------------- the like mutation
LikeUsers == {"", "user_1", "user_2"}     \* "" is an undefined userId
ComponentIds == 1..MaxRows

NoMutation == [userId |-> "", componentId |-> 0, liked |-> FALSE]
NoLikes ==
  [component_likes |-> {}, mutation |-> NoMutation, requests |-> <<>>,
   result |-> "none"]

Request(kind, userId, componentId) ==
  [kind |-> kind, user_id |-> userId, component_id |-> componentId]

\* likeComponent, lines 157-170
likeComponent(table, userId, componentId) ==
  [request |-> Request("insert", userId, componentId),
   table |-> table \cup {<<userId, componentId>>}]

\* unlikeComponent, lines 172-188
unlikeComponent(table, userId, componentId) ==
  [request |-> Request("delete", userId, componentId),
   table |-> table \ {<<userId, componentId>>}]

mutationFn_sameDirection(table, userId, componentId, liked) ==
  IF liked THEN likeComponent(table, userId, componentId)
  ELSE unlikeComponent(table, userId, componentId)
\* mutationFn of useLikeMutation, lines 203-207
mutationFn(table, userId, componentId, liked) ==
  IF liked THEN unlikeComponent(table, userId, componentId)
  ELSE likeComponent(table, userId, componentId)

\* useLikeMutation, lines 190-224: one mutate({componentId, liked}); the
\* request succeeds or returns an error, which the helper throws
LikeMutation ==
  /\ \E userId \in LikeUsers, componentId \in ComponentIds,
        liked \in BOOLEAN, ok \in BOOLEAN :
       LET called == mutationFn(likes.component_likes, userId, componentId,
                                liked)
           mutation == [userId |-> userId, componentId |-> componentId,
                        liked |-> liked]
       IN likes' =
            IF userId = ""
            THEN [likes EXCEPT !.mutation = mutation, !.requests = <<>>,
                               !.result = "error"]
            ELSE [component_likes |-> IF ok THEN called.table
                                      ELSE likes.component_likes,
                  mutation |-> mutation,
                  requests |-> <<called.request>>,
                  result |-> IF ok THEN "success" ELSE "error"]
  /\ UNCHANGED <<editVars, authVars, routerPush, isLoading,
                 isSuccessDialogOpen, runVars, dbVars, returned,
                 addTagsCalls>>

\* ------------------------------------------------------- specifications
InitForm(t) ==
  /\ code = t.code
  /\ demo_code = t.demo_code
  /\ componentDependencies = t.componentDependencies
  /\ importsToRemove = t.importsToRemove
  /\ showComponentDetails = t.showComponentDetails
  /\ isEditMode = t.isEditMode
  /\ previewProps = t.previewProps

ExistingTags == {[id |-> 1, name |-> "UI", slug |-> "ui"]}
OtherUsersTags == {[id |-> 2, name |-> "Chart", slug |-> "chart"]}

NoQuery == [fn |-> "", rows |-> {}]

InitClient ==
  /\ returned = NoQuery
  /\ addTagsCalls = [c \in Callers |-> NoCall]
  /\ likes = NoLikes
  /\ isLoaded = FALSE
  /\ isSignedIn = FALSE
  /\ rendered = PublishPageView(FALSE, FALSE)
  /\ routerPush = ""
  /\ isLoading = FALSE
  /\ isSuccessDialogOpen = FALSE
  /\ pc = "idle"
  /\ run = NoRun
  /\ ops = NoOps
  /\ consoleErrors = {}
  /\ alerts = {}
  /\ storage = {}

\* the tables before this user publishes: the tag "chart" may or may not
\* have been created by another user
InitTables ==
  /\ components = {}
  /\ tagsTable \in {ExistingTags, ExistingTags \cup OtherUsersTags}
  /\ component_tags = {}

InitRest == InitClient /\ InitTables

\* the form as mounted: nothing entered
InitPreview == InitForm(MountState) /\ InitRest

NextPreview ==
  \/ EditCode
  \/ ClickEditCode
  \/ EditDemo
  \/ ClickEditDemo
  \/ SetInternalDependencySlug

SpecPreview == InitPreview /\ [][NextPreview]_vars

\* the form with component code and demo code entered, as EditCode and
\* EditDemo leave it
Entered(c, d) ==
  LET s1 == Settle([MountState EXCEPT !.code = c], <<>>, <<>>, FALSE)
  IN Settle([s1 EXCEPT !.demo_code = d], s1.code, s1.demo_code, FALSE)

EnteredCodes ==
  {<<ExportLine("A")>>,
   <<ImportLine("B", InternalModule), ExportLine("A")>>}
EnteredDemo == <<DemoLine>>

Init ==
  /\ \E c \in EnteredCodes : InitForm(Entered(c, EnteredDemo))
  /\ InitRest

RunStep ==
  \/ UploadResolves
  \/ PreviewUploadResolves
  \/ AddComponentResolves
  \/ TagLookupResolves
  \/ TagInsertResolves
  \/ LinkResolves

Next ==
  \/ ClerkLoaded
  \/ SignIn
  \/ SignOut
  \/ SetInternalDependencySlug
  \/ handleSubmit
  \/ UploadResolves
  \/ PreviewUploadResolves
  \/ AddComponentResolves
  \/ TagLookupResolves
  \/ TagInsertResolves
  \/ LinkResolves
  \/ handleGoToComponent
  \/ handleAddAnother
  \/ CloseDialog

Spec == Init /\ [][Next]_vars

\* every backend call returns or throws
FairSpec == Spec /\ WF_vars(RunStep)

\* the queries, run on any table of at most MaxRows components
InitQueries ==
  /\ InitForm(MountState)
  /\ InitClient
  /\ components \in ComponentTables
  /\ tagsTable = ExistingTags \cup OtherUsersTags
  /\ component_tags \in SUBSET ((1..MaxRows) \X {1, 2})

NextQueries ==
  \/ GetComponent
  \/ GetUserComponents
  \/ GetComponents
  \/ FetchDependencyComponents
  \/ ComponentOwnerUsername

SpecQueries == InitQueries /\ [][NextQueries]_vars

\* several clients publish at the same time: each calls addTagsToComponent
\* once, for the component it has just inserted
InitTags == InitForm(MountState) /\ InitClient /\ InitTables

NextTags ==
  \E c \in Callers :
    \/ AddTagsToComponentCalled(c)
    \/ CallLookupResolves(c)
    \/ CallInsertResolves(c)
    \/ CallLinkResolves(c)

SpecTags == InitTags /\ [][NextTags]_vars

\* the like button: any sequence of like mutations
NextLikes == LikeMutation
\* nobody has liked anything yet
InitLikes == InitForm(MountState) /\ InitClient /\ InitTables

SpecLikes == InitLikes /\ [][NextLikes]_vars

\* ---------------------------------------------------------------- claims
\* C6: no function of dbQueries returns a component that is not public.
C6_PrivateNeverReturned ==
  \A r \in returned.rows : r.is_public = Public


ImportsComponentName(text, c) ==
  \E i \in 1..Len(text) :
    /\ text[i].kind = "import"
    /\ text[i].name \in SeqToSet(extractComponentNames(c))

\* C4: whenever previewProps is non-null, the demo code the preview was built
\* from imports no name that the component code currently exports.
C4_PreviewWithoutSelfImport ==
  previewProps # Null => ~ImportsComponentName(previewProps[1].demo, code)

EmptySlug == \E p \in DOMAIN internalDependencies : internalDependencies[p] = ""
NoBackendOperation == ops' = NoOps /\ UNCHANGED dbVars
Err(k) == ops[k].result = "err"

\* C1: an onSubmit without a signed-in user issues no backend operation, shows
\* an alert, leaves isLoading false and leaves the success dialog as it is.
C1_NoUserNoBackend ==
  [][(user = NoUser /\ handleSubmit) =>
       /\ NoBackendOperation
       /\ alerts' = {Shown(LoginAlert, NoOp)}
       /\ ~isLoading /\ ~isLoading'
       /\ isSuccessDialogOpen' = isSuccessDialogOpen]_vars
C1_Witness ==
  user = NoUser /\ alerts = {Shown(LoginAlert, NoOp)} /\ ops = NoOps

\* C2: every backend error of a submission is logged and shown as an alert.
C2_ErrorsLoggedAndAlerted ==
  \A k \in OpKeys :
    Err(k) => /\ \E c \in consoleErrors : c.op = k
              /\ \E a \in alerts : a.op = k

\* C3: the record passed to addComponent carries name, component_slug,
\* preview_url and the is_public value of the form, and the selected tags are
\* the ones passed to addTagsToComponent.
C3_MetadataPersisted ==
  /\ run.componentData # <<>> =>
       LET componentData == run.componentData[1]
       IN /\ componentData.name = FormName
          /\ componentData.component_slug = FormSlug
          /\ run.data.preview_url # "" => componentData.preview_url # <<>>
          /\ run.data.is_public # <<>> =>
               /\ "is_public" \in DOMAIN componentData
               /\ componentData.is_public = run.data.is_public[1]
  /\ pc \in {"lookup", "insertTag", "link"} => run.tagList = run.data.tags

\* C5 as stated: an onSubmit with an internal dependency without slug issues
\* no backend operation, shows the alert asking for the slugs and leaves
\* isLoading and the success dialog unchanged.
C5_EmptySlugRejected ==
  [][(EmptySlug /\ handleSubmit) =>
       /\ NoBackendOperation
       /\ alerts' = {Shown(SlugAlert, NoOp)}
       /\ UNCHANGED <<isLoading, isSuccessDialogOpen>>]_vars

\* C5 amended: the same for an onSubmit with a signed-in user.
C5_EmptySlugRejectedSignedIn ==
  [][(user # NoUser /\ EmptySlug /\ handleSubmit) =>
       /\ NoBackendOperation
       /\ alerts' = {Shown(SlugAlert, NoOp)}
       /\ UNCHANGED <<isLoading, isSuccessDialogOpen>>]_vars
C5_Witness ==
  user # NoUser /\ EmptySlug /\ alerts = {Shown(SlugAlert, NoOp)}
  /\ ops = NoOps

\* C7: within one onSubmit every backend operation is invoked at most once,
\* also after it failed.
C7_AtMostOnce == \A k \in OpKeys : ops[k].calls <= 1
C7_Witness ==
  /\ pc = "idle" /\ isSuccessDialogOpen
  /\ \E i \in 1..MaxTags : Err(<<"link", i>>) \/ Err(<<"insertTag", i>>)

\* C8: PublishPage shows ComponentForm only with the auth state loaded and the
\* user signed in, only the spinner while it is not loaded, and pushes the
\* sign-in route whenever it is loaded with nobody signed in.
C8_PublishPageGate ==
  /\ rendered = "ComponentForm" => isLoaded /\ isSignedIn
  /\ ~isLoaded => rendered = "LoadingSpinner"
  /\ (isLoaded /\ ~isSignedIn) => routerPush = SignInUrl
C8_Witness ==
  isLoaded /\ ~isSignedIn /\ rendered = "RedirectToSignIn"
  /\ components # {}

Called(o, p, k) == p[k].calls > o[k].calls
HandledTags(o) ==
  {i \in 1..MaxTags :
     \/ o[<<"link", i>>].result \in {"ok", "err"}
     \/ o[<<"insertTag", i>>].result \in {"err", "null"}}

\* C9: addComponent is invoked only after both uploads (and the upload of a
\* set preview image) succeeded, the tag operations only after addComponent
\* returned a record, and the dialog opens only after every tag was handled.
C9_StepsOrdered ==
  [][/\ Called(ops, ops', <<"addComponent", 0>>) =>
          /\ ops'[<<"uploadCode", 0>>].result = "ok"
          /\ ops'[<<"uploadDemo", 0>>].result = "ok"
          /\ run'.data.preview_url # "" =>
               ops'[<<"uploadPreviewImage", 0>>].result = "ok"
     /\ (\E k \in TagOps \X (1..MaxTags) : Called(ops, ops', k)) =>
          /\ ops'[<<"addComponent", 0>>].result = "ok"
          /\ \E r \in components' : r.id = run'.componentId
     /\ (~isSuccessDialogOpen /\ isSuccessDialogOpen') =>
          /\ ops'[<<"addComponent", 0>>].result = "ok"
          /\ HandledTags(ops') = 1..Len(tagsForComponent(run.data.tags))
          /\ \A k \in OpKeys : ops'[k].result # "pending"]_vars
C9_Witness ==
  /\ isSuccessDialogOpen
  /\ ops[<<"uploadPreviewImage", 0>>].result = "ok"
  /\ ops[<<"link", 1>>].result = "ok"

\* C10: isLoading becomes true only in an onSubmit that passed both
\* pre-checks, and whenever it is true it becomes false again.
C10_LoadingBracketsRun ==
  /\ [][(~isLoading /\ isLoading') =>
          /\ handleSubmit
          /\ user # NoUser
          /\ ~EmptySlug]_vars
  /\ (isLoading ~> ~isLoading)
C10_Witness ==
  ~isLoading /\ pc = "idle" /\ Err(<<"addComponent", 0>>)

FreshOps == Call(Call(NoOps, <<"uploadCode", 0>>), <<"uploadDemo", 0>>)

\* C11: a run of onSubmit is in flight exactly while isLoading is true, and
\* while it is no other run starts: the calls of the run in flight are never
\* replaced by the first calls of a new run, and its captured values stay.
C11_OneSubmissionInFlight ==
  [][/\ isLoading <=> pc # "idle"
     /\ (isLoading /\ ops' = FreshOps) => (ops = FreshOps /\ run' = run)
     /\ (isLoading /\ isLoading') =>
          Cardinality(components') <= Cardinality(components) + 1]_vars
C11_Witness ==
  /\ isLoading /\ pc = "uploads"
  /\ ops[<<"uploadCode", 0>>].result = "ok"
  /\ showComponentDetails

RunEnds == pc # "idle" /\ pc' = "idle"

\* C12: a run of onSubmit that passed the pre-checks ends either with the
\* success dialog opened or with an error alert shown, never both, never
\* neither.
C12_ExactlyOneOutcome ==
  [][(RunEnds /\ ~isSuccessDialogOpen) =>
       (isSuccessDialogOpen' <=> alerts' = {})]_vars

StepFailed(o) == \E b \in BaseOps : o[<<b, 0>>].result = "err"
PendingUploads(o) ==
  {FileOf(f) : f \in {g \in {"uploadCode", "uploadDemo"} :
                        o[<<g, 0>>].result = "pending"}}

SlugExists(table, slug) == \E t \in table : t.slug = slug

\* C14: addTagsToComponent issues the insert of a tag row only for a tag
\* without id whose lookup answered, without error, that no tag has its slug;
\* a tag with an id is linked with no lookup and no insert, and a tag whose
\* slug exists is linked to the existing row.
C14_InsertOnlyNewTags ==
  [][\A i \in 1..MaxTags :
       /\ Called(ops, ops', <<"insertTag", i>>) =>
            /\ run.tagList[i].id = NoId
            /\ ops'[<<"lookup", i>>].result = "none"
            /\ ~SlugExists(tagsTable, generateSlug(run.tagList[i].name))
       /\ (Called(ops, ops', <<"link", i>>) /\ run'.tagList[i].id # NoId) =>
            /\ ops'[<<"lookup", i>>].calls = 0
            /\ ops'[<<"insertTag", i>>].calls = 0
            /\ run'.tagId = run'.tagList[i].id]_vars

\* C15: whatever the interleaving of the calls of addTagsToComponent, no two
\* of them insert a tag row for the same slug, each after a lookup that found
\* no tag with that slug.
C15_OneInsertPerSlug ==
  \A c, d \in Callers :
    c # d => addTagsCalls[c].clean \cap addTagsCalls[d].clean = {}

FailsNow(o, p, k) ==
  o[k].result = "pending" /\ p[k].result \in {"err", "null"}

\* C16: addTagsToComponent takes the tags in list order, one at a time; a
\* failed tag insert or link is logged, shows no alert and is followed by the
\* next tag (or by the normal end of the call after the last one); a tag is
\* linked at most once, and not at all when its creation failed.
C16_TagsInOrderNoAbort ==
  [][\A i \in 1..MaxTags :
       /\ (\E t \in TagOps : Called(ops, ops', <<t, i>>)) =>
            /\ 1..(i - 1) \subseteq HandledTags(ops')
            /\ \A j \in (i + 1)..MaxTags, t \in TagOps :
                 ops'[<<t, j>>].calls = 0
       /\ \A k \in {<<"insertTag", i>>, <<"link", i>>} :
            FailsNow(ops, ops', k) =>
              /\ \E c \in consoleErrors' : c.op = k
              /\ alerts' = alerts
              /\ IF i < Len(run.tagList)
                 THEN \/ Called(ops, ops', <<"lookup", i + 1>>)
                      \/ Called(ops, ops', <<"link", i + 1>>)
                 ELSE pc' = "idle" /\ isSuccessDialogOpen'
       /\ ops'[<<"link", i>>].calls <= 1
       /\ ops'[<<"insertTag", i>>].result \in {"err", "null"} =>
            ops'[<<"link", i>>].calls = 0]_vars
C16_Witness ==
  /\ ops[<<"insertTag", 1>>].result = "err"
  /\ ops[<<"link", 1>>].calls = 0
  /\ ops[<<"link", 2>>].result = "ok"
  /\ <<1, 1>> \in component_tags

\* C17: a like mutation with a defined userId issues exactly one request, for
\* its (userId, componentId): a delete from component_likes when liked is
\* true, an insert when liked is false.
C17_OneOppositeRequest ==
  likes.mutation.userId # "" =>
    likes.requests =
      <<Request(IF likes.mutation.liked THEN "delete" ELSE "insert",
                likes.mutation.userId, likes.mutation.componentId)>>
C17_Witness ==
  /\ likes.mutation = [userId |-> "user_1", componentId |-> 1, liked |-> TRUE]
  /\ likes.result = "success"
  /\ likes.component_likes = {<<"user_2", 1>>}

====
